---- MODULE Spec2Model ----
(***************************************************************************)
(* Model of async-recorder: a Recorder handle feeding an unbounded mpsc    *)
(* queue of Commands (Save / Load) to one Actor task that owns the         *)
(* Storage, batches Saves into bulks and answers Loads.                    *)
(*                                                                         *)
(* The storage is the in-memory Vec of src/src/storage.rs.  The sequence   *)
(* `bulks` records every batch handed to Storage::save and `guard` is the  *)
(* mutex guard of the BlockableStorageSpy of src/tests/integration.rs:     *)
(* while it is held no call of Storage::save completes.  As in that test,  *)
(* the guard is taken before the first call on the handle, nothing is sent *)
(* any more once it has been dropped, and it is dropped before close.      *)
(***************************************************************************)
EXTENDS Integers, Sequences, FiniteSets, TLC

\* ------------------------------------------------------------------ bounds
\* Total number of commands (save and records calls) issued on a handle.
MaxCmds == 3

\* ------------------------------------------------------------------ inputs
Producers == {"p1", "p2"}
Records == {"first", "second"}
\* Range<usize> queries lo..hi of the Vec storage.
Queries == {<<0, 2>>, <<1, 1>>}
\* Storage values handed to Recorder::new / produced by the lazy future.
InitialStorages == {<<>>, <<"first">>}

VARIABLES
    lazy,       \* TRUE: built by with_lazy_storage, FALSE: by new
    init,       \* the storage value supplied at construction
    queue,      \* commands in the unbounded channel, oldest first
    senderOpen, \* Recorder::sender has not been dropped
    storage,    \* Actor::storage (a Vec)
    boxed,      \* Actor::storage of the same recorder built on Box<dyn Storage>
    bulk,       \* local `bulk` of Actor::run
    current,    \* local `current` of Actor::run (the command being matched)
    next,       \* local `next` of Actor::run (the command peeked while draining)
    pc,         \* position of the actor task
    oneshot,    \* oneshot[i]: reply channel of the i-th command sent
    prod,       \* prod[p]: what producer p is doing
    closer,     \* position of Recorder::close
    result,     \* what close returned
    guard,      \* the spy's mutex guard: "none", "held" or "released"
    sent,       \* history: every command sent, in queue-arrival order
    issued,     \* history: issued[p] = commands of producer p in program order
    taken,      \* history: ids of the commands the actor dequeued, in order
    bulks,      \* history: the batches passed to Storage::save, in call order
    loads       \* history: the calls of Storage::load, in call order

vars == <<lazy, init, queue, senderOpen, storage, boxed, bulk, current, next, pc,
          oneshot, prod, closer, result, guard, sent, issued, taken, bulks,
          loads>>

\* ---------------------------------------------------------------- commands
\* enum Command { Save(record), Load(sender, query) }; `id` is the position
\* of the command in `sent` and names the oneshot channel a Load carries.
None == [type |-> "None", rec |-> "", q |-> <<0, 0>>, id |-> 0, prod |-> ""]
SaveCmd(r, i, p) == [type |-> "Save", rec |-> r, q |-> <<0, 0>>, id |-> i, prod |-> p]
LoadCmd(q, i, p) == [type |-> "Load", rec |-> "", q |-> q, id |-> i, prod |-> p]

\* ------------------------------------------------------------- the storage
\* Mutant of VecSave: the new records are put in front of the stored ones.
VecSavePrepend(s, records) == records \o s

\* Mutant of VecSave: a storage for which saving a batch is not saving its
\* records one by one (only the last record of a batch is kept).
VecSaveLast(s, records) ==
    IF records = <<>> THEN s ELSE Append(s, records[Len(records)])

\* <Vec<T> as Storage>::save: self.append(records)
VecSave(s, records) == s \o records

\* Indexing self[lo..hi] panics unless lo <= hi <= len.
InRange(s, q) == q[1] <= q[2] /\ q[2] <= Len(s)

\* <Vec<T> as Storage>::load: self[query].to_owned()
VecLoad(s, q) == SubSeq(s, q[1] + 1, q[2])

\* Box<dyn Storage> around a Vec, as the test builds it.
BoxNew(s) == [inner |-> s]

\* Mutant of BoxSave: the call is not forwarded to the wrapped storage.
BoxSaveNoop(b, records) == b

\* <Box<dyn Storage> as Storage>::save: (**self).save(records).await
BoxSave(b, records) == [inner |-> VecSave(b.inner, records)]

\* <Box<dyn Storage> as Storage>::load: (**self).load(query).await
BoxLoad(b, q) == VecLoad(b.inner, q)

\* ------------------------------------------------------------ the channels
\* Mutant of Send: the command goes to the front of the queue.
SendFront(q, cmd) == <<cmd>> \o q

\* UnboundedSender::send: the command goes to the back of the queue.
Send(q, cmd) == Append(q, cmd)

\* Mutant of Push: the record goes to the front of the bulk.
PushFront(b, r) == <<r>> \o b

\* bulk.push(record)
Push(b, r) == Append(b, r)

\* oneshot::Sender::send(records): delivered unless the receiver is gone.
OneshotSend(ch, records) ==
    IF ch.st = "pending" THEN [st |-> "value", val |-> records] ELSE ch

NoChannel == [st |-> "none", val |-> <<>>]
NewChannel == [st |-> "pending", val |-> <<>>]

\* Mutant of DropSenders: only the reply channel of the Load the actor holds
\* is dropped; the queued commands stay alive with the channel.
DropHeldSender(chs, cmds, cur) ==
    [i \in DOMAIN chs |->
        IF chs[i].st = "pending" /\ cur.type = "Load" /\ cur.id = i
        THEN [st |-> "txdropped", val |-> <<>>]
        ELSE chs[i]]

\* Dropping the actor drops the receiver and every queued command with the
\* oneshot sender it carries; `cur` is a Load the actor holds itself.
DropSenders(chs, cmds, cur) ==
    [i \in DOMAIN chs |->
        IF /\ chs[i].st = "pending"
           /\ \/ \E k \in DOMAIN cmds : cmds[k].id = i /\ cmds[k].type = "Load"
              \/ (cur.type = "Load" /\ cur.id = i)
        THEN [st |-> "txdropped", val |-> <<>>]
        ELSE chs[i]]

\* --------------------------------------------------------------- histories
RECURSIVE SavesOf(_)
SavesOf(cmds) ==
    IF cmds = <<>> THEN <<>>
    ELSE IF Head(cmds).type = "Save"
         THEN <<Head(cmds).rec>> \o SavesOf(Tail(cmds))
         ELSE SavesOf(Tail(cmds))

RECURSIVE LoadIdsOf(_)
LoadIdsOf(cmds) ==
    IF cmds = <<>> THEN <<>>
    ELSE IF Head(cmds).type = "Load"
         THEN <<Head(cmds).id>> \o LoadIdsOf(Tail(cmds))
         ELSE LoadIdsOf(Tail(cmds))

RECURSIVE IdsOf(_)
IdsOf(cmds) ==
    IF cmds = <<>> THEN <<>> ELSE <<Head(cmds).id>> \o IdsOf(Tail(cmds))

RECURSIVE Concat(_)
Concat(bs) == IF bs = <<>> THEN <<>> ELSE Head(bs) \o Concat(Tail(bs))

RECURSIVE ByProducer(_, _)
ByProducer(cmds, p) ==
    IF cmds = <<>> THEN <<>>
    ELSE IF Head(cmds).prod = p
         THEN <<Head(cmds)>> \o ByProducer(Tail(cmds), p)
         ELSE ByProducer(Tail(cmds), p)

IsPrefix(s, t) == Len(s) <= Len(t) /\ SubSeq(t, 1, Len(s)) = s

\* -------------------------------------------------------------------- Init
\* Mutant of StartPc: the actor runs without awaiting the storage.
StartPcEager(l) == "recv"

\* tokio::spawn(async { Actor::new(storage.await, receiver).run() }) first
\* awaits the storage; Recorder::new spawns actor.run() on a ready storage.
StartPc(l) == IF l THEN "lazy" ELSE "recv"

Idle == [pc |-> "idle", id |-> 0]

Init ==
    /\ lazy \in BOOLEAN
    /\ init \in InitialStorages
    /\ guard \in {"none", "held"}
    \* the spy is handed to Recorder::new with no bulk recorded yet
    /\ guard = "held" => (~lazy /\ init = <<>>)
    /\ queue = <<>>
    /\ senderOpen = TRUE
    /\ storage = IF lazy THEN <<>> ELSE init
    /\ boxed = BoxNew(IF lazy THEN <<>> ELSE init)
    /\ bulk = <<>>
    /\ current = None
    /\ next = None
    /\ pc = StartPc(lazy)
    /\ oneshot = <<>>
    /\ prod = [p \in Producers |-> Idle]
    /\ closer = "open"
    /\ result = <<>>
    /\ sent = <<>>
    /\ issued = [p \in Producers |-> <<>>]
    /\ taken = <<>>
    /\ bulks = <<>>
    /\ loads = <<>>

\* ------------------------------------------------------------ the producers
\* The receiving half of the queue lives as long as the actor task does.
ReceiverAlive == pc \notin {"done", "panicked"}

\* What Recorder::save needs in order to return: an idle caller holding the
\* handle.  (The call then either enqueues or panics on a closed receiver.)
CanCall(p) == senderOpen /\ closer = "open" /\ prod[p].pc = "idle"

\* The calls the callers make: at most MaxCmds of them, none after the
\* guard of the spy has been dropped.
MayIssue == Len(sent) < MaxCmds /\ guard # "released"

\* Mutant of Save: the channel is bounded (capacity 1) and a save waits
\* for room in it.
SaveBounded(p, r) ==
    /\ CanCall(p)
    /\ Len(queue) < 1
    /\ LET cmd == SaveCmd(r, Len(sent) + 1, p) IN
       IF ReceiverAlive
       THEN /\ queue' = Send(queue, cmd)
            /\ sent' = Append(sent, cmd)
            /\ issued' = [issued EXCEPT ![p] = Append(@, cmd)]
            /\ oneshot' = Append(oneshot, NoChannel)
            /\ prod' = prod
       ELSE /\ prod' = [prod EXCEPT ![p] = [pc |-> "panicked", id |-> 0]]
            /\ UNCHANGED <<queue, sent, issued, oneshot>>
    /\ UNCHANGED <<lazy, init, senderOpen, storage, boxed, bulk, current, next, pc,
                   closer, result, guard, taken, bulks, loads>>

\* Recorder::save
Save(p, r) ==
    /\ CanCall(p)
    /\ LET cmd == SaveCmd(r, Len(sent) + 1, p) IN
       IF ReceiverAlive
       THEN /\ queue' = Send(queue, cmd)
            /\ sent' = Append(sent, cmd)
            /\ issued' = [issued EXCEPT ![p] = Append(@, cmd)]
            /\ oneshot' = Append(oneshot, NoChannel)
            /\ prod' = prod
       ELSE \* .expect("Receiver must not be closed.")
            /\ prod' = [prod EXCEPT ![p] = [pc |-> "panicked", id |-> 0]]
            /\ UNCHANGED <<queue, sent, issued, oneshot>>
    /\ UNCHANGED <<lazy, init, senderOpen, storage, boxed, bulk, current, next, pc,
                   closer, result, guard, taken, bulks, loads>>

\* Recorder::records up to receiver.await
Records_(p, q) ==
    /\ CanCall(p)
    /\ LET cmd == LoadCmd(q, Len(sent) + 1, p) IN
       IF ReceiverAlive
       THEN /\ queue' = Send(queue, cmd)
            /\ sent' = Append(sent, cmd)
            /\ issued' = [issued EXCEPT ![p] = Append(@, cmd)]
            /\ oneshot' = Append(oneshot, NewChannel)
            /\ prod' = [prod EXCEPT ![p] = [pc |-> "waiting", id |-> cmd.id]]
       ELSE \* .expect("Receiver must not be closed")
            /\ prod' = [prod EXCEPT ![p] = [pc |-> "panicked", id |-> 0]]
            /\ UNCHANGED <<queue, sent, issued, oneshot>>
    /\ UNCHANGED <<lazy, init, senderOpen, storage, boxed, bulk, current, next, pc,
                   closer, result, guard, taken, bulks, loads>>

\* receiver.await.expect("The sender must not be dropped")
Reply(p) ==
    /\ prod[p].pc = "waiting"
    /\ oneshot[prod[p].id].st \in {"value", "txdropped"}
    /\ IF oneshot[prod[p].id].st = "value"
       THEN /\ oneshot' = [oneshot EXCEPT ![prod[p].id].st = "received"]
            /\ prod' = [prod EXCEPT ![p] = Idle]
       ELSE /\ oneshot' = oneshot
            /\ prod' = [prod EXCEPT ![p] = [pc |-> "panicked", id |-> 0]]
    /\ UNCHANGED <<lazy, init, queue, senderOpen, storage, boxed, bulk, current, next,
                   pc, closer, result, guard, sent, issued, taken, bulks,
                   loads>>

\* The caller drops the future of records while it waits: the oneshot
\* receiver is dropped with it.
Abandon(p) ==
    /\ prod[p].pc = "waiting"
    /\ oneshot' = [oneshot EXCEPT ![prod[p].id] = [st |-> "rxdropped", val |-> <<>>]]
    /\ prod' = [prod EXCEPT ![p] = Idle]
    /\ UNCHANGED <<lazy, init, queue, senderOpen, storage, boxed, bulk, current, next,
                   pc, closer, result, guard, sent, issued, taken, bulks,
                   loads>>

\* Mutant of Close: close awaits the join handle without dropping the sender.
CloseKeepsSender ==
    /\ closer = "open"
    /\ guard # "held"
    /\ \A p \in Producers : prod[p].pc # "waiting"
    /\ closer' = "joining"
    /\ UNCHANGED <<lazy, init, queue, senderOpen, storage, boxed, bulk, current, next,
                   pc, oneshot, prod, result, guard, sent, issued, taken, bulks,
                   loads>>

\* Recorder::close takes the handle by value: nobody borrows it any more.
\* (The test leaves the scope of the guard before it closes.)
Close ==
    /\ closer = "open"
    /\ guard # "held"
    /\ \A p \in Producers : prod[p].pc # "waiting"
    /\ senderOpen' = FALSE
    /\ closer' = "joining"
    /\ UNCHANGED <<lazy, init, queue, storage, boxed, bulk, current, next, pc, oneshot,
                   prod, result, guard, sent, issued, taken, bulks, loads>>

\* self.join_handle.await.expect(..)
Join ==
    /\ closer = "joining"
    /\ pc \in {"done", "panicked"}
    /\ IF pc = "done"
       THEN closer' = "returned" /\ result' = storage
       ELSE closer' = "panicked" /\ result' = result
    /\ UNCHANGED <<lazy, init, queue, senderOpen, storage, boxed, bulk, current, next,
                   pc, oneshot, prod, guard, sent, issued, taken, bulks,
                   loads>>

\* The test drops the guard of the spy's mutex.
Unblock ==
    /\ guard = "held"
    /\ guard' = "released"
    /\ UNCHANGED <<lazy, init, queue, senderOpen, storage, boxed, bulk, current, next,
                   pc, oneshot, prod, closer, result, sent, issued, taken,
                   bulks, loads>>

\* ---------------------------------------------------------------- the actor
\* storage.await resolves; Actor::new(storage, receiver)
Resolve ==
    /\ pc = "lazy"
    /\ storage' = init
    /\ boxed' = BoxNew(init)
    /\ pc' = "recv"
    /\ UNCHANGED <<lazy, init, queue, senderOpen, bulk, current, next, oneshot,
                   prod, closer, result, guard, sent, issued, taken, bulks,
                   loads>>

\* `match command`: a Save starts a bulk and the drain loop, a Load is
\* answered.
PcFor(cmd) == IF cmd.type = "Save" THEN "drain" ELSE "answer"
\* Mutant of BulkFor: the Save that was received is not pushed to the bulk
\* before the drain loop starts.
BulkForgets(b, cmd) == b

BulkFor(b, cmd) == IF cmd.type = "Save" THEN Push(b, cmd.rec) ELSE b
CurrentFor(cmd) == IF cmd.type = "Load" THEN cmd ELSE None

\* self.receiver.recv().await yields Some(command)
Recv ==
    /\ pc = "recv"
    /\ queue # <<>>
    /\ queue' = Tail(queue)
    /\ taken' = Append(taken, Head(queue).id)
    /\ pc' = PcFor(Head(queue))
    /\ bulk' = BulkFor(bulk, Head(queue))
    /\ current' = CurrentFor(Head(queue))
    /\ UNCHANGED <<lazy, init, senderOpen, storage, boxed, next, oneshot, prod, closer,
                   result, guard, sent, issued, bulks, loads>>

\* Mutant of Terminate: the actor saves its (empty) bulk once more on the
\* way out.
TerminateFlushes ==
    /\ pc = "recv"
    /\ queue = <<>>
    /\ ~senderOpen
    /\ pc' = "done"
    /\ storage' = VecSave(storage, bulk)
    /\ boxed' = BoxSave(boxed, bulk)
    /\ bulks' = Append(bulks, bulk)
    /\ UNCHANGED <<lazy, init, queue, senderOpen, bulk, current, next, oneshot,
                   prod, closer, result, guard, sent, issued, taken, loads>>

\* Mutant of Terminate: the run loop ends as soon as the queue is empty,
\* whether or not the sender is still there.
TerminateOnEmpty ==
    /\ pc = "recv"
    /\ queue = <<>>
    /\ pc' = "done"
    /\ UNCHANGED <<lazy, init, queue, senderOpen, storage, boxed, bulk, current, next,
                   oneshot, prod, closer, result, guard, sent, issued, taken,
                   bulks, loads>>

\* self.receiver.recv().await yields None: the loop ends, run returns
\* self.storage.
Terminate ==
    /\ pc = "recv"
    /\ queue = <<>>
    /\ ~senderOpen
    /\ pc' = "done"
    /\ UNCHANGED <<lazy, init, queue, senderOpen, storage, boxed, bulk, current, next,
                   oneshot, prod, closer, result, guard, sent, issued, taken,
                   bulks, loads>>

\* Mutant of TryRecv: a command that is no Save ends the drain loop and is
\* not remembered.
TryRecvDropsLoad ==
    /\ pc = "drain"
    /\ IF queue = <<>>
       THEN /\ next' = None
            /\ pc' = "flush"
            /\ UNCHANGED <<queue, bulk, taken>>
       ELSE /\ queue' = Tail(queue)
            /\ taken' = Append(taken, Head(queue).id)
            /\ IF Head(queue).type = "Save"
               THEN /\ bulk' = Push(bulk, Head(queue).rec)
                    /\ UNCHANGED <<next, pc>>
               ELSE /\ next' = None
                    /\ pc' = "flush"
                    /\ bulk' = bulk
    /\ UNCHANGED <<lazy, init, senderOpen, storage, boxed, current, oneshot, prod,
                   closer, result, guard, sent, issued, bulks, loads>>

\* Mutant of TryRecv: a Load polled while draining is remembered, but the
\* drain goes on behind it until the queue is empty.
TryRecvPastLoad ==
    /\ pc = "drain"
    /\ IF queue = <<>>
       THEN /\ pc' = "flush"
            /\ UNCHANGED <<queue, bulk, taken, next>>
       ELSE /\ queue' = Tail(queue)
            /\ taken' = Append(taken, Head(queue).id)
            /\ IF Head(queue).type = "Save"
               THEN /\ bulk' = Push(bulk, Head(queue).rec)
                    /\ UNCHANGED <<next, pc>>
               ELSE /\ next' = Head(queue)
                    /\ UNCHANGED <<bulk, pc>>
    /\ UNCHANGED <<lazy, init, senderOpen, storage, boxed, current, oneshot, prod,
                   closer, result, guard, sent, issued, bulks, loads>>

\* One turn of `loop { match self.receiver.try_recv() {..} }`
TryRecv ==
    /\ pc = "drain"
    /\ IF queue = <<>>
       THEN \* Err(_) => break None
            /\ next' = None
            /\ pc' = "flush"
            /\ UNCHANGED <<queue, bulk, taken>>
       ELSE /\ queue' = Tail(queue)
            /\ taken' = Append(taken, Head(queue).id)
            /\ IF Head(queue).type = "Save"
               THEN \* Ok(Command::Save(record)) => bulk.push(record)
                    /\ bulk' = Push(bulk, Head(queue).rec)
                    /\ UNCHANGED <<next, pc>>
               ELSE \* Ok(other) => break Some(other)
                    /\ next' = Head(queue)
                    /\ pc' = "flush"
                    /\ bulk' = bulk
    /\ UNCHANGED <<lazy, init, senderOpen, storage, boxed, current, oneshot, prod,
                   closer, result, guard, sent, issued, bulks, loads>>

\* Mutant of Flush: a Load peeked while draining is answered before the bulk
\* is saved (the bulk stays in the buffer).
FlushAfterLoad ==
    /\ pc = "flush"
    /\ guard # "held"
    /\ IF next.type = "Load"
       THEN /\ pc' = "answer"
            /\ current' = next
            /\ UNCHANGED <<storage, boxed, bulks, bulk>>
       ELSE /\ storage' = VecSave(storage, bulk)
            /\ boxed' = BoxSave(boxed, bulk)
            /\ bulks' = Append(bulks, bulk)
            /\ IF next.type = "None"
               THEN pc' = "recv" /\ bulk' = <<>> /\ current' = None
               ELSE /\ pc' = PcFor(next)
                    /\ bulk' = BulkFor(<<>>, next)
                    /\ current' = CurrentFor(next)
    /\ next' = None
    /\ UNCHANGED <<lazy, init, queue, senderOpen, oneshot, prod, closer, result,
                   guard, sent, issued, taken, loads>>

\* Mutant of Flush: after the save the actor always goes back to the
\* blocking recv, whatever it peeked while draining.
FlushRepolls ==
    /\ pc = "flush"
    /\ guard # "held"
    /\ storage' = VecSave(storage, bulk)
    /\ boxed' = BoxSave(boxed, bulk)
    /\ bulks' = Append(bulks, bulk)
    /\ pc' = "recv" /\ bulk' = <<>> /\ current' = None
    /\ next' = None
    /\ UNCHANGED <<lazy, init, queue, senderOpen, oneshot, prod, closer, result,
                   guard, sent, issued, taken, loads>>

\* self.storage.save(&mut bulk).await; bulk.clear(); then `current = next`
\* or, with no next, the blocking recv.
Flush ==
    /\ pc = "flush"
    /\ guard # "held"
    /\ storage' = VecSave(storage, bulk)
    /\ boxed' = BoxSave(boxed, bulk)
    /\ bulks' = Append(bulks, bulk)
    /\ IF next.type = "None"
       THEN pc' = "recv" /\ bulk' = <<>> /\ current' = None
       ELSE /\ pc' = PcFor(next)
            /\ bulk' = BulkFor(<<>>, next)
            /\ current' = CurrentFor(next)
    /\ next' = None
    /\ UNCHANGED <<lazy, init, queue, senderOpen, oneshot, prod, closer, result,
                   guard, sent, issued, taken, loads>>

\* Mutant of Answer: sender.send(records).expect(..), so a reply nobody
\* waits for panics the actor.
AnswerExpects ==
    /\ pc = "answer"
    /\ IF InRange(storage, current.q) /\ oneshot[current.id].st = "pending"
       THEN LET records == VecLoad(storage, current.q) IN
            /\ loads' = Append(loads, [id |-> current.id, seen |-> storage,
                                       result |-> records, heard |-> TRUE])
            /\ oneshot' = [oneshot EXCEPT ![current.id] = OneshotSend(@, records)]
            /\ pc' = "recv"
            /\ queue' = queue
       ELSE /\ loads' = loads
            /\ oneshot' = DropSenders(oneshot, queue, current)
            /\ pc' = "panicked"
            /\ queue' = <<>>
    /\ current' = None
    /\ UNCHANGED <<lazy, init, senderOpen, storage, boxed, bulk, next, prod, closer,
                   result, guard, sent, issued, taken, bulks>>

\* Mutant of Answer: the load takes the records out of the storage
\* (self.drain(query)) instead of copying them.
AnswerDrains ==
    /\ pc = "answer"
    /\ IF InRange(storage, current.q)
       THEN LET records == VecLoad(storage, current.q) IN
            /\ loads' = Append(loads, [id |-> current.id, seen |-> storage,
                                       result |-> records,
                                       heard |-> oneshot[current.id].st = "pending"])
            /\ oneshot' = [oneshot EXCEPT ![current.id] = OneshotSend(@, records)]
            /\ pc' = "recv"
            /\ queue' = queue
            /\ storage' = SubSeq(storage, 1, current.q[1])
                            \o SubSeq(storage, current.q[2] + 1, Len(storage))
       ELSE /\ loads' = loads
            /\ oneshot' = DropSenders(oneshot, queue, current)
            /\ pc' = "panicked"
            /\ queue' = <<>>
            /\ storage' = storage
    /\ current' = None
    /\ UNCHANGED <<lazy, init, senderOpen, boxed, bulk, next, prod, closer,
                   result, guard, sent, issued, taken, bulks>>

\* Mutant of Answer: the load clamps the range to the records stored
\* (self.get(..) with a clamped range) instead of indexing the slice.
AnswerTruncates ==
    /\ pc = "answer"
    /\ LET hi == IF current.q[2] <= Len(storage) THEN current.q[2] ELSE Len(storage)
           lo == IF current.q[1] <= hi THEN current.q[1] ELSE hi
           records == VecLoad(storage, <<lo, hi>>) IN
       /\ loads' = Append(loads, [id |-> current.id, seen |-> storage,
                                  result |-> records,
                                  heard |-> oneshot[current.id].st = "pending"])
       /\ oneshot' = [oneshot EXCEPT ![current.id] = OneshotSend(@, records)]
    /\ pc' = "recv"
    /\ queue' = queue
    /\ current' = None
    /\ UNCHANGED <<lazy, init, senderOpen, storage, boxed, bulk, next, prod, closer,
                   result, guard, sent, issued, taken, bulks>>

\* Command::Load(sender, query): storage.load(query), sender.send(records)
Answer ==
    /\ pc = "answer"
    /\ IF InRange(storage, current.q)
       THEN LET records == VecLoad(storage, current.q) IN
            /\ loads' = Append(loads, [id |-> current.id, seen |-> storage,
                                       result |-> records,
                                       heard |-> oneshot[current.id].st = "pending"])
            /\ oneshot' = [oneshot EXCEPT ![current.id] = OneshotSend(@, records)]
            /\ pc' = "recv"
            /\ queue' = queue
       ELSE \* the slice index panics: the task unwinds and drops the actor
            /\ loads' = loads
            /\ oneshot' = DropSenders(oneshot, queue, current)
            /\ pc' = "panicked"
            /\ queue' = <<>>
    /\ current' = None
    /\ UNCHANGED <<lazy, init, senderOpen, storage, boxed, bulk, next, prod, closer,
                   result, guard, sent, issued, taken, bulks>>

Actor == Resolve \/ Recv \/ Terminate \/ TryRecv \/ Flush \/ Answer

Next ==
    \/ \E p \in Producers, r \in Records : MayIssue /\ Save(p, r)
    \/ \E p \in Producers, q \in Queries : MayIssue /\ Records_(p, q)
    \/ \E p \in Producers : Reply(p)
    \/ \E p \in Producers : Abandon(p)
    \/ Close
    \/ Join
    \/ Unblock
    \/ Resolve
    \/ Recv
    \/ Terminate
    \/ TryRecv
    \/ Flush
    \/ Answer

Spec == Init /\ [][Next]_vars

\* The runtime keeps scheduling a runnable actor task (a storage future that
\* resolves included), and a caller that awaits close keeps awaiting it.
FairSpec == Spec /\ WF_vars(Actor) /\ WF_vars(Join)

TypeOK ==
    /\ pc \in {"lazy", "recv", "drain", "flush", "answer", "done", "panicked"}
    /\ closer \in {"open", "joining", "returned", "panicked"}
    /\ Len(oneshot) = Len(sent)
    /\ Len(sent) <= MaxCmds

\* ================================================================== claims
\* Producer p is the only one that has called the handle.
SoleProducer(p) == \A o \in Producers \ {p} : issued[o] = <<>>

\* The storage content a Load at position i of the queue history follows:
\* the initial content and every Save that arrived before it.
Before(i) == init \o SavesOf(SubSeq(sent, 1, i - 1))

Delivered(i) == oneshot[i].st \in {"value", "received"}

LoadEntries(i) == {k \in DOMAIN loads : loads[k].id = i}

\* ---------------------------------------------------------------------- C1
\* C1: when close returns and a single producer issued every call, the
\* returned storage is the initial content followed by exactly the records
\* that producer saved, in the order it saved them.
C1_SingleProducerOrder ==
    closer = "returned" =>
        \A p \in Producers :
            SoleProducer(p) => result = init \o SavesOf(issued[p])

C1_Witness ==
    /\ closer = "returned"
    /\ SoleProducer("p1")
    /\ init = <<"first">>
    /\ SavesOf(issued["p1"]) = <<"second", "first", "second">>
    /\ Len(bulks) = 2

\* ---------------------------------------------------------------------- C2
\* C2: when Storage::load is called for a Load, every Save that entered the
\* queue before it (so every earlier save of the same producer, whose
\* commands enter the queue in program order) has been passed to
\* Storage::save; a delivered reply to a query that lies within those
\* records is exactly that range of them (save a, b, c then records(0..2)
\* yields [a, b]).
C2_ReadAfterWrite ==
    /\ \A p \in Producers : ByProducer(sent, p) = issued[p]
    /\ \A k \in DOMAIN loads : IsPrefix(Before(loads[k].id), loads[k].seen)
    /\ \A i \in DOMAIN sent :
        (sent[i].type = "Load" /\ Delivered(i) /\ sent[i].q[2] <= Len(Before(i)))
            => oneshot[i].val = VecLoad(Before(i), sent[i].q)

C2_Witness ==
    /\ SoleProducer("p1")
    /\ init = <<>>
    /\ Len(sent) = 3
    /\ SavesOf(sent) = <<"first", "second">>
    /\ sent[3].type = "Load" /\ sent[3].q = <<0, 2>>
    /\ oneshot[3] = [st |-> "received", val |-> <<"first", "second">>]
    /\ Len(bulks) = 2

\* ---------------------------------------------------------------------- C3
\* The test persist_events_in_bulk: two saves by one caller while the guard
\* is held, the guard dropped, the recorder closed.
BulkScenario ==
    /\ closer = "returned"
    /\ guard = "released"
    /\ Len(sent) = 2
    /\ sent[1].type = "Save" /\ sent[2].type = "Save"
    /\ sent[1].prod = sent[2].prod

C4_LazyStorage ==
    /\ pc = "lazy" =>
        (queue = sent /\ taken = <<>> /\ bulks = <<>> /\ loads = <<>> /\ bulk = <<>>)
    /\ lazy =>
        /\ \A i \in DOMAIN sent :
            (sent[i].type = "Load" /\ Delivered(i))
                => oneshot[i].val = VecLoad(Before(i), sent[i].q)
        /\ closer = "returned" => result = init \o SavesOf(sent)

C4_Witness ==
    /\ pc = "lazy"
    /\ init = <<"first">>
    /\ Len(queue) = 2
    /\ queue[1].type = "Save" /\ queue[1].rec = "second"
    /\ queue[2].type = "Load" /\ queue[2].q = <<0, 2>>
    /\ prod[queue[2].prod].pc = "waiting"

\* ---------------------------------------------------------------------- C5
\* C5: once close has dropped the sender, the actor terminates and close
\* returns the storage, unless a call of Storage::load panicked; and when
\* close has returned every command sent has been dequeued and the batch
\* buffer is empty.
C5_CloseReturns ==
    /\ (closer = "joining") ~> (closer = "returned" \/ pc = "panicked")
    /\ [](closer = "returned" =>
            (queue = <<>> /\ Len(taken) = Len(sent) /\ bulk = <<>> /\ result = storage))

\* close is awaiting the actor while commands are still queued, the actor
\* being in the middle of a drain.
C5_Witness ==
    /\ closer = "joining"
    /\ pc = "drain"
    /\ Len(queue) = 2
    /\ queue[1].type = "Save" /\ queue[2].type = "Load"

\* ---------------------------------------------------------------------- C6
AnsweredIds == [k \in DOMAIN loads |-> loads[k].id]

\* The Load the actor holds: peeked while draining, or being answered.
HeldLoad ==
    IF next.type = "Load" THEN <<next.id>>
    ELSE IF current.type = "Load" THEN <<current.id>>
    ELSE <<>>

\* C6: the actor dequeues the commands in queue order, each once, and the
\* records of the dequeued Saves are exactly the batches passed to
\* Storage::save followed by the batch buffer (each record in one batch);
\* and for as long as every call of Storage::load has returned (the actor
\* task has not been unwound by a panic in it), no command is dropped: the
\* dequeued commands followed by the queued ones are the commands sent, the
\* dequeued Loads are exactly the Loads answered followed by the one the
\* actor holds, and a terminated actor holds nothing.
C6_ExactlyOnce ==
    /\ taken = [i \in 1..Len(taken) |-> i]
    /\ Concat(bulks) \o bulk = SavesOf(SubSeq(sent, 1, Len(taken)))
    /\ pc # "panicked" =>
        /\ taken \o IdsOf(queue) = [i \in 1..Len(sent) |-> i]
        /\ AnsweredIds \o HeldLoad = LoadIdsOf(SubSeq(sent, 1, Len(taken)))
        /\ pc = "done" => (Len(taken) = Len(sent) /\ bulk = <<>> /\ HeldLoad = <<>>)

C6_Witness ==
    /\ pc = "done"
    /\ Len(sent) = 3
    /\ sent[1].type = "Save" /\ sent[2].type = "Load" /\ sent[3].type = "Save"
    /\ bulks = << <<sent[1].rec>>, <<sent[3].rec>> >>
    /\ AnsweredIds = <<2>>

\* ---------------------------------------------------------------------- C7
\* A call of save that returns having appended one Save to the queue and
\* moved nothing of the actor.
SaveEnqueues(p, r) ==
    /\ Save(p, r)
    /\ queue' = Append(queue, SaveCmd(r, Len(sent) + 1, p))
    /\ prod'[p] = Idle
    /\ UNCHANGED <<pc, storage, boxed, bulk, current, next, bulks, loads, taken>>

\* C7: whenever the handle is open and the actor task is alive, whatever the
\* actor is doing and however long the queue is, a save by an idle caller
\* can complete at once, appending one Save to the queue.
C7_SaveNeverBlocks ==
    \A p \in Producers : \A r \in Records :
        (CanCall(p) /\ ReceiverAlive) => ENABLED SaveEnqueues(p, r)

C7_Witness ==
    /\ pc = "flush"
    /\ guard = "held"
    /\ senderOpen
    /\ Len(queue) = 2
    /\ queue[1].type = "Save" /\ queue[2].type = "Save"

\* ---------------------------------------------------------------------- C8
\* C8: as long as save was never called, Storage::save has not been called
\* and the storage is the one supplied; close then returns that value.
C8_NoSaveIdentity ==
    SavesOf(sent) = <<>> =>
        /\ bulks = <<>>
        /\ pc # "lazy" => storage = init
        /\ closer = "returned" => result = init

C8_Witness ==
    /\ closer = "returned"
    /\ SavesOf(sent) = <<>>
    /\ init = <<"first">>
    /\ Len(loads) >= 1

\* ---------------------------------------------------------------------- C9
\* C9: the commands of each producer are in the queue history in the order
\* the producer issued them, the actor dequeues in queue order, and the
\* storage close returns is the initial content followed by the saved
\* records in queue-arrival order.
C9_ArrivalOrder ==
    /\ \A p \in Producers : ByProducer(sent, p) = issued[p]
    /\ taken = [i \in 1..Len(taken) |-> i]
    /\ closer = "returned" => result = init \o SavesOf(sent)

C9_Witness ==
    /\ closer = "returned"
    /\ Len(sent) = 3
    /\ sent[1].prod = "p1" /\ sent[2].prod = "p2" /\ sent[3].prod = "p1"
    /\ init = <<>>
    /\ result = <<"first", "second", "first">>

\* --------------------------------------------------------------------- C10
\* C10: answering a Load whose caller dropped the wait leaves the actor
\* waiting for the next command, the storage and the queue untouched and
\* the reply discarded; and when the actor has terminated, every Load sent
\* was passed to Storage::load, every reply not abandoned was delivered and
\* every record saved is in the storage.
C10_AbandonStep ==
    (/\ pc = "answer"
     /\ pc' # "answer"
     /\ oneshot[current.id].st = "rxdropped"
     /\ InRange(storage, current.q))
        => /\ pc' = "recv"
           /\ storage' = storage
           /\ queue' = queue
           /\ oneshot' = oneshot
           /\ loads' = Append(loads, [id |-> current.id, seen |-> storage,
                                      result |-> VecLoad(storage, current.q),
                                      heard |-> FALSE])

C10_AfterAbandon ==
    pc = "done" =>
        /\ storage = init \o SavesOf(sent)
        /\ \A i \in DOMAIN sent :
            sent[i].type = "Load" =>
                /\ LoadEntries(i) # {}
                /\ oneshot[i].st \in {"value", "received", "rxdropped"}

C10_AbandonHarmless == [][C10_AbandonStep]_vars /\ []C10_AfterAbandon

C10_Witness ==
    /\ closer = "returned"
    /\ Len(sent) = 3
    /\ sent[1].type = "Load" /\ sent[2].type = "Save" /\ sent[3].type = "Load"
    /\ oneshot[1].st = "rxdropped"
    /\ loads[1].id = 1 /\ ~loads[1].heard
    /\ oneshot[3].st = "received"
    /\ result = init \o <<sent[2].rec>>

\* --------------------------------------------------------------------- C11
\* C11: once the actor task has panicked, no reply channel is left pending
\* (the Load in flight and every Load still queued had its sender dropped),
\* so every waiting records call can resolve, and those without a value
\* resolve to a panic; a records call issued afterwards panics at once
\* instead of waiting; and a close that awaits the task can finish, with a
\* panic and never with a storage value.
C11_WorkerFailureSurfaces ==
    pc = "panicked" =>
        /\ queue = <<>>
        /\ \A i \in DOMAIN oneshot : oneshot[i].st # "pending"
        /\ \A p \in Producers :
            prod[p].pc = "waiting" =>
                /\ ENABLED Reply(p)
                /\ oneshot[prod[p].id].st = "txdropped" =>
                    /\ ENABLED (Reply(p) /\ prod'[p].pc = "panicked")
                    /\ ~ENABLED (Reply(p) /\ prod'[p].pc # "panicked")
        /\ \A p \in Producers : \A q \in Queries :
            CanCall(p) =>
                /\ ENABLED (Records_(p, q) /\ prod'[p].pc = "panicked")
                /\ ~ENABLED (Records_(p, q) /\ prod'[p].pc = "waiting")
        /\ closer # "returned"
        /\ closer = "joining" =>
            /\ ENABLED (Join /\ closer' = "panicked")
            /\ ~ENABLED (Join /\ closer' = "returned")

\* The handle is open, the Load of p1 was in flight and the Load of p2
\* still queued when the actor panicked; p1 has seen the failure.
C11_Witness ==
    /\ pc = "panicked"
    /\ closer = "open"
    /\ Len(sent) = 2
    /\ sent[1].prod = "p1" /\ sent[2].prod = "p2"
    /\ oneshot[1].st = "txdropped" /\ oneshot[2].st = "txdropped"
    /\ prod["p1"].pc = "panicked"
    /\ prod["p2"].pc = "waiting"

\* --------------------------------------------------------------------- C12
\* `boxed` is the storage of a recorder over Box<dyn Storage> that receives
\* the same commands in the same schedule as the one over the plain Vec.

\* A step that answers a Load: the boxed load gives the reply the plain one
\* gives; a step in which the plain load panics: so does the boxed one.
C12_LoadStep ==
    /\ (pc = "answer" /\ pc' = "recv") =>
        /\ InRange(boxed.inner, current.q)
        /\ loads'[Len(loads')].result = BoxLoad(boxed, current.q)
    /\ (pc = "answer" /\ pc' = "panicked") => ~InRange(boxed.inner, current.q)

\* C12: the recorder over the boxed storage holds the same storage content
\* as the one over the wrapped Vec in every state, gives the same answer to
\* every query and hands the same content back from close.
C12_BoxedSameAsPlain ==
    /\ [](boxed.inner = storage)
    /\ [][C12_LoadStep]_vars
    /\ [](closer = "returned" => result = boxed.inner)

C12_Witness ==
    /\ closer = "returned"
    /\ init = <<>>
    /\ boxed = [inner |-> <<"first", "second">>]
    /\ Len(loads) = 1
    /\ loads[1].result = <<"first", "second">>
    /\ oneshot[loads[1].id].st = "received"

\* --------------------------------------------------------------------- C13
\* The query of the k-th call of Storage::load.
QueryOf(k) == sent[loads[k].id].q

\* No Save lies between the Loads of calls k and l in the queue, so none is
\* processed between the two calls.
NoSaveBetween(k, l) == SavesOf(SubSeq(sent, loads[k].id, loads[l].id)) = <<>>

\* A step that answers a Load leaves the storage as it is.
C13_LoadStep == (pc = "answer" /\ pc' = "recv") => storage' = storage

\* C13: answering a Load does not change the storage, and two calls of
\* Storage::load with the same query and no Save processed between them see
\* the same storage and return the same records, as do the replies
\* delivered for them.
C13_RepeatedLoad ==
    /\ [][C13_LoadStep]_vars
    /\ [](\A k, l \in DOMAIN loads :
            (k < l /\ QueryOf(k) = QueryOf(l) /\ NoSaveBetween(k, l)) =>
                /\ loads[k].seen = loads[l].seen
                /\ loads[k].result = loads[l].result
                /\ (Delivered(loads[k].id) /\ Delivered(loads[l].id)) =>
                    oneshot[loads[k].id].val = oneshot[loads[l].id].val)

C13_Witness ==
    /\ init = <<"first">>
    /\ Len(sent) = 3
    /\ sent[1].type = "Save" /\ sent[1].rec = "second"
    /\ sent[2].type = "Load" /\ sent[2].q = <<0, 2>>
    /\ sent[3].type = "Load" /\ sent[3].q = <<0, 2>>
    /\ oneshot[2] = [st |-> "received", val |-> <<"first", "second">>]
    /\ oneshot[3] = [st |-> "received", val |-> <<"first", "second">>]

\* --------------------------------------------------------------------- C14
\* Positions in the queue history of the Saves, in order.
RECURSIVE SavePositions(_, _)
SavePositions(cmds, at) ==
    IF cmds = <<>> THEN <<>>
    ELSE IF Head(cmds).type = "Save"
         THEN <<at>> \o SavePositions(Tail(cmds), at + 1)
         ELSE SavePositions(Tail(cmds), at + 1)

\* Number of records in the batches before the k-th one.
SavedBefore(k) == Len(Concat(SubSeq(bulks, 1, k - 1)))

\* The records with ranks from + 1 .. from + n among the Saves sit at
\* consecutive positions of the queue history: no Load lies between them.
Contiguous(from, n) ==
    LET pos == SavePositions(sent, 1) IN
    n > 0 => pos[from + n] - pos[from + 1] = n - 1

\* C14: the batches passed to Storage::save, concatenated in call order and
\* followed by the batch buffer, are the records of the dequeued Saves in
\* queue order; each batch, and the buffer, is a run of Saves consecutive in
\* the queue, with no Load between them; and when the actor has terminated
\* the batches together are all Save records in queue order.
C14_ContiguousBatches ==
    /\ Concat(bulks) \o bulk = SavesOf(SubSeq(sent, 1, Len(taken)))
    /\ \A k \in DOMAIN bulks : Contiguous(SavedBefore(k), Len(bulks[k]))
    /\ Contiguous(Len(Concat(bulks)), Len(bulk))
    /\ pc = "done" => Concat(bulks) = SavesOf(sent)

C14_Witness ==
    /\ pc = "done"
    /\ Len(sent) = 3
    /\ sent[1].type = "Save" /\ sent[2].type = "Save" /\ sent[3].type = "Load"
    /\ bulks = << <<"first", "second">> >>
    /\ Len(loads) = 1

\* --------------------------------------------------------------------- C15
\* The step out of a flush that holds a peeked Load: the batch is saved, the
\* Load becomes the current command and nothing is received.
C15_FlushStep ==
    (pc = "flush" /\ next.type = "Load" /\ pc' # "flush") =>
        /\ bulks' = Append(bulks, bulk)
        /\ storage' = VecSave(storage, bulk)
        /\ pc' = "answer"
        /\ current' = next
        /\ queue' = queue
        /\ taken' = taken
        /\ loads' = loads

\* The step out of answering: the Load answered (or panicked on) is the
\* current one and nothing is received.
C15_AnswerStep ==
    (pc = "answer" /\ pc' # "answer") =>
        /\ taken' = taken
        /\ pc' = "recv" =>
            (queue' = queue /\ loads' # loads /\ loads'[Len(loads')].id = current.id)

\* The Load the actor holds is the last command it dequeued: everything
\* behind it is still in the queue.
C15_HeldIsLast ==
    /\ (pc = "flush" /\ next.type = "Load") =>
        (bulk # <<>> /\ next.id = taken[Len(taken)] /\ current = None)
    /\ pc = "answer" =>
        (bulk = <<>> /\ current.type = "Load" /\ current.id = taken[Len(taken)]
         /\ next = None
         /\ AnsweredIds = LoadIdsOf(SubSeq(sent, 1, current.id - 1)))

\* C15: when the drain stopped on a Load, the flush saves the batch and then
\* hands exactly that Load to the answering arm without receiving; until it
\* is answered it stays the last command dequeued, so no command behind it
\* in the queue is processed before it.
C15_PeekedLoadNext ==
    [][C15_FlushStep]_vars /\ [][C15_AnswerStep]_vars /\ []C15_HeldIsLast

C15_Witness ==
    /\ pc = "flush"
    /\ guard # "held"
    /\ next.type = "Load"
    /\ next.id = 2
    /\ bulk = <<"second">>
    /\ Len(queue) = 1
    /\ queue[1].type = "Save"

\* --------------------------------------------------------------------- C16
\* C16: the actor can return, and has returned, only when the sender is
\* dropped, the queue is empty, the bulk buffer is empty and no command is
\* remembered; with the sender still there an actor that finds the queue
\* empty only waits; and once it has returned every Save sent, those polled
\* after the sender was dropped included, has been passed to Storage::save.
C16_NormalTermination ==
    /\ (pc = "done" \/ ENABLED Terminate) =>
        /\ ~senderOpen
        /\ queue = <<>>
        /\ bulk = <<>>
        /\ next = None
        /\ current = None
    /\ (pc = "recv" /\ queue = <<>> /\ senderOpen) => ~ENABLED Actor
    /\ pc = "done" =>
        /\ Concat(bulks) = SavesOf(sent)
        /\ storage = init \o SavesOf(sent)
        /\ Len(taken) = Len(sent)

C16_Witness ==
    /\ pc = "done"
    /\ closer = "joining"
    /\ init = <<>>
    /\ Len(sent) = 3
    /\ bulks = << <<"first">>, <<"second", "first">> >>

\* --------------------------------------------------------------------- C17
\* C17: the storage a Load is answered from is exactly the initial content
\* followed by the Saves before it in the queue history, and none behind it;
\* the records it computes, and the reply a records call gets, are the query
\* applied to that content.
C17_QueuePrefix ==
    /\ \A k \in DOMAIN loads :
        /\ loads[k].seen = Before(loads[k].id)
        /\ loads[k].result = VecLoad(Before(loads[k].id), QueryOf(k))
    /\ \A i \in DOMAIN sent :
        (sent[i].type = "Load" /\ Delivered(i)) =>
            /\ LoadEntries(i) # {}
            /\ oneshot[i].val = VecLoad(Before(i), sent[i].q)

\* A Load answered while a later Save was already in the queue.
C17_Witness ==
    /\ init = <<"first">>
    /\ Len(sent) = 3
    /\ sent[1].type = "Save" /\ sent[1].rec = "second"
    /\ sent[2].type = "Load" /\ sent[2].q = <<0, 2>>
    /\ sent[3].type = "Save" /\ sent[3].rec = "first"
    /\ Len(queue) = 1 /\ queue[1].id = 3
    /\ Len(loads) = 1
    /\ loads[1].result = <<"first", "second">>
    /\ oneshot[2].st = "value"
    /\ pc = "recv"

\* --------------------------------------------------------------------- C18
\* A reference worker without look-ahead: it takes the queued commands
\* strictly one at a time, saves each Save as a batch of one, answers each
\* Load from the storage as it then is, and stops where a load panics.
RefInit == [storage |-> init, replies |-> <<>>, panicked |-> FALSE]

RefStep(st, cmd) ==
    IF cmd.type = "Save"
    THEN [st EXCEPT !.storage = VecSave(@, <<cmd.rec>>)]
    ELSE IF InRange(st.storage, cmd.q)
         THEN [st EXCEPT !.replies =
                   Append(@, [id |-> cmd.id, result |-> VecLoad(st.storage, cmd.q)])]
         ELSE [st EXCEPT !.panicked = TRUE]

RECURSIVE RefRun(_, _)
RefRun(cmds, st) ==
    IF cmds = <<>> \/ st.panicked
    THEN st
    ELSE RefRun(Tail(cmds), RefStep(st, Head(cmds)))

Reference == RefRun(sent, RefInit)

\* What the actor computed for the Loads it answered, in the order it
\* answered them.
ActorReplies == [k \in DOMAIN loads |-> [id |-> loads[k].id, result |-> loads[k].result]]

\* C18: over the commands sent so far the actor's replies are the first
\* replies of the reference worker, and a reply delivered to a records call
\* is the reference worker's reply to that call; an actor that has returned
\* has given every reply of the reference and holds its final storage, which
\* close returns; an actor that panicked did so where the reference does.
C18_BatchingUnobservable ==
    LET ref == Reference IN
    /\ IsPrefix(ActorReplies, ref.replies)
    /\ \A i \in DOMAIN sent :
        (sent[i].type = "Load" /\ Delivered(i)) =>
            \E k \in DOMAIN ref.replies :
                ref.replies[k] = [id |-> i, result |-> oneshot[i].val]
    /\ pc = "done" =>
        /\ ~ref.panicked
        /\ ActorReplies = ref.replies
        /\ storage = ref.storage
    /\ pc = "panicked" =>
        /\ ref.panicked
        /\ ActorReplies = ref.replies
    /\ closer = "returned" => result = ref.storage

\* A run in which the actor saved two records as one batch.
C18_Witness ==
    /\ closer = "returned"
    /\ init = <<>>
    /\ bulks = << <<"second", "first">> >>
    /\ Len(loads) = 1
    /\ loads[1].result = <<"second", "first">>
    /\ result = <<"second", "first">>

\* --------------------------------------------------------------------- C19
\* The actor is done with command i: it dequeued it and neither holds it as
\* the peeked command nor is about to answer it.
Processed(i) ==
    /\ \E k \in DOMAIN taken : taken[k] = i
    /\ next.id # i
    /\ current.id # i

\* A Load whose range reaches past the records stored when it is processed.
OutOfRange(i) == sent[i].type = "Load" /\ ~InRange(Before(i), sent[i].q)

\* The step that processes such a Load: the actor panics, computes no
\* records, replies nothing and leaves the storage alone.
C19_LoadStep ==
    (pc = "answer" /\ ~InRange(storage, current.q) /\ pc' # "answer") =>
        /\ pc' = "panicked"
        /\ loads' = loads
        /\ oneshot'[current.id].st \in {"txdropped", "rxdropped"}
        /\ storage' = storage

\* What the callers can still do once the actor has panicked: a call of
\* save or records and the await of a dropped reply channel end in a panic
\* (a waiting caller may still drop its future, or take the reply an earlier
\* in-range Load got before the panic), no command is accepted, and close
\* ends in a panic.
C19_AfterPanic ==
    pc = "panicked" =>
        /\ \A p \in Producers :
            prod'[p] # prod[p] =>
                \/ prod'[p].pc = "panicked"
                \/ prod[p].pc = "waiting" /\ prod'[p] = Idle
                     /\ oneshot'[prod[p].id].st = "rxdropped"
                \/ prod[p].pc = "waiting" /\ prod'[p] = Idle
                     /\ oneshot[prod[p].id].st = "value"
                     /\ ~OutOfRange(prod[p].id)
        /\ sent' = sent
        /\ pc' = "panicked"
        /\ closer' # closer => (closer' = "joining" \/ (closer = "joining" /\ closer' = "panicked"))

\* No out-of-range Load is ever answered, truncated or empty; once one has
\* been processed the actor is panicked, its caller is left with a dropped
\* reply channel, and close has not returned a storage.
C19_NoTruncation ==
    /\ \A i \in DOMAIN sent :
        (sent[i].type = "Load" /\ Delivered(i)) =>
            /\ InRange(Before(i), sent[i].q)
            /\ Len(oneshot[i].val) = sent[i].q[2] - sent[i].q[1]
    /\ \A i \in DOMAIN sent :
        (OutOfRange(i) /\ Processed(i)) =>
            /\ pc = "panicked"
            /\ LoadEntries(i) = {}
            /\ oneshot[i].st \in {"txdropped", "rxdropped"}
            /\ closer # "returned"
            /\ \A p \in Producers :
                (prod[p].pc = "waiting" /\ prod[p].id = i) => oneshot[i].st = "txdropped"

\* C19: a Load whose range reaches past the records stored when the Vec
\* storage processes it gets no truncated or empty reply: the actor panics
\* on it, the records call that sent it panics on its dropped reply channel,
\* every later save and records call panics, and close panics instead of
\* returning the storage.
C19_OutOfRangePanics ==
    [][C19_LoadStep]_vars /\ [][C19_AfterPanic]_vars /\ []C19_NoTruncation

\* The out-of-range Load was the only command; its caller, a later caller
\* and close have all panicked.
C19_Witness ==
    /\ pc = "panicked"
    /\ init = <<"first">>
    /\ Len(sent) = 1
    /\ sent[1].type = "Load" /\ sent[1].q = <<0, 2>> /\ sent[1].prod = "p1"
    /\ oneshot[1].st = "txdropped"
    /\ prod["p1"].pc = "panicked"
    /\ prod["p2"].pc = "panicked"
    /\ closer = "panicked"

\* --------------------------------------------------------------------- C20
\* C20: no batch passed to Storage::save is empty; the bulk buffer is empty
\* whenever the actor awaits the storage, waits in recv, answers a Load or
\* has ended, and holds at least one record exactly while it drains the
\* queue and until the save that follows.
C20_NoEmptyBatch ==
    /\ \A k \in DOMAIN bulks : bulks[k] # <<>>
    /\ ENABLED Flush => bulk # <<>>
    /\ pc \in {"lazy", "recv", "answer", "done", "panicked"} => bulk = <<>>
    /\ pc \in {"drain", "flush"} => bulk # <<>>

\* The actor answers a Load right after a flush, with a Save waiting.
C20_Witness ==
    /\ pc = "answer"
    /\ bulk = <<>>
    /\ bulks = << <<"first">> >>
    /\ Len(queue) = 1
    /\ queue[1].type = "Save"
====
